---- MODULE Spec2Model ----
(***************************************************************************)
(* The report pipeline of modules/report.py (class Report): extraction of  *)
(* the "loaded_modules" envelope, pruning, compliance flattening, the      *)
(* raw/mitigation split, the two view formatters and the output artifacts  *)
(* of Report.run.                                                          *)
(*                                                                         *)
(* Python values.  A mapping is a TLA+ function from its keys.  Below the  *)
(* level of a module result a value is tagged: [s |-> r] is a scalar given *)
(* by its Python repr r ("1", "'high'", "''", "None"), [d |-> f] is a      *)
(* mapping f.  The results tree (host -> module -> module result) is       *)
(* always made of mappings and is kept as plain nested functions.          *)
(* Python mappings iterate in insertion order; the model takes the keys of *)
(* every mapping to have been inserted in the order of KeyOrder, which is  *)
(* also the order pformat sorts them into.  Loops whose result does not    *)
(* depend on the order are written as function constructors.               *)
(***************************************************************************)
EXTENDS Naturals, Sequences, FiniteSets, TLC

VARIABLES
    input,      \* the "results" keyword argument as handed to run (never changed: a record of the input)
    path,       \* the "path" keyword argument, a string as a sequence of tokens
    mode,       \* the "mode" keyword argument: "HOSTS" or "MODULES"
    stix,       \* the "stix" keyword argument
    pc,         \* the stage run is about to perform
    results,    \* the local variable results of run
    prev,       \* results as it was before the last stage that assigned it (a record for the properties)
    modules,    \* the local variable modules of run (the catalogue)
    view,       \* to_process["results"], the view handed to the template
    log         \* the calls made to the file system and to the collaborators, in order

vars == <<input, path, mode, stix, pc, results, prev, modules, view, log>>

(* ------------------------------ bounds --------------------------------- *)

MaxHosts == 2

MaxPathLen == 3

(* ------------------------------ values --------------------------------- *)

S(r) == [s |-> r]

D(f) == [d |-> f]

IsDict(v) == "d" \in DOMAIN v

\* every string used as a key, in ascending (ASCII) order
KeyOrder ==
    << "Entry", "Foo", "Name", "compare_many", "compare_many_s1", "compare_many_s2",
       "compare_one", "compare_one_s1", "compare_one_s2", "foo", "h1", "h2", "h3", "h4",
       "hosts", "loaded_modules", "m1", "m2", "mitigation", "no_mitigation_here", "other",
       "raw", "results", "risk", "s1", "s2", "x" >>

HostNames == << "h1", "h2", "h3", "h4" >>

\* the keys of a mapping in iteration order
Iter(K) == SelectSeq(KeyOrder, LAMBDA k : k \in K)

\* str.lower() on the keys of the model
Lower(k) ==
    CASE k = "Entry" -> "entry"
      [] k = "Foo" -> "foo"
      [] k = "Name" -> "name"
      [] k = "PDF" -> "pdf"
      [] OTHER -> k

Restrict(f, K) == [k \in K |-> f[k]]

\* del f[k]
Del(f, k) == Restrict(f, DOMAIN f \ {k})

\* f[k] = v
Put(f, k, v) == [x \in DOMAIN f \cup {k} |-> IF x = k THEN v ELSE f[x]]

\* f.update(g)
Update(f, g) == [x \in DOMAIN f \cup DOMAIN g |-> IF x \in DOMAIN g THEN g[x] ELSE f[x]]

Last(s) == s[Len(s)]

(* ------- collaborators: utils.prune, utils.validation, pprint, requests ------- *)

\* utils.prune.pruner: "removes empty branches from a results tree"
IsEmptyVal(v) == IF IsDict(v) THEN v.d = <<>> ELSE v.s \in {"''", "None"}

RECURSIVE PruneDict(_)
PruneDict(f) ==
    LET g == [k \in DOMAIN f |-> IF IsDict(f[k]) THEN D(PruneDict(f[k].d)) ELSE f[k]]
    IN  Restrict(g, {k \in DOMAIN g : ~IsEmptyVal(g[k])})

PruneRecord(rec) ==
    LET g == [m \in DOMAIN rec |-> PruneDict(rec[m])]
    IN  Restrict(g, {m \in DOMAIN g : g[m] # <<>>})

pruner(res) ==
    LET g == [h \in DOMAIN res |-> PruneRecord(res[h])]
    IN  Restrict(g, {h \in DOMAIN g : g[h] # <<>>})

\* utils.validation.rec_search_key: the values under `key` at any depth, in
\* pre-order; a value found under `key` is not searched further
RECURSIVE SearchKeys(_, _, _)
SearchKeys(key, f, ks) ==
    IF ks = <<>> THEN <<>>
    ELSE LET k == Head(ks)
             v == f[k]
             here == IF k = key THEN <<v>>
                     ELSE IF IsDict(v) THEN SearchKeys(key, v.d, Iter(DOMAIN v.d))
                     ELSE <<>>
         IN  here \o SearchKeys(key, f, Tail(ks))

rec_search_key(key, f) == SearchKeys(key, f, Iter(DOMAIN f))

\* pprint.pformat of a mapping: its repr with the keys sorted.  pformat breaks a
\* text longer than 80 columns over several lines; the line breaks are left out
RECURSIVE ReprItems(_, _)
ReprItems(f, ks) ==
    IF ks = <<>> THEN ""
    ELSE LET k == Head(ks)
             v == IF IsDict(f[k]) THEN "{" \o ReprItems(f[k].d, Iter(DOMAIN f[k].d)) \o "}"
                  ELSE f[k].s
         IN  "'" \o k \o "': " \o v \o (IF Tail(ks) = <<>> THEN "" ELSE ", ")
                 \o ReprItems(f, Tail(ks))

pformat(f) == [text |-> "{" \o ReprItems(f, Iter(DOMAIN f)) \o "}"]

\* requests.structures.CaseInsensitiveDict(f): the store maps the lowered key
\* to the key and value set last
CaseInsensitiveDict(f) ==
    [lk \in {Lower(k) : k \in DOMAIN f} |->
        LET k == Last(Iter({x \in DOMAIN f : Lower(x) = lk}))
        IN  [key |-> k, val |-> f[k]]]

\* d[k] = v on a view entry (a plain dict or a CaseInsensitiveDict)
SetItem(store, k, v) == Put(store, Lower(k), [key |-> k, val |-> v])

\* the fields of a view entry as CaseInsensitiveDict.__eq__ compares them
Fields(store) == [lk \in DOMAIN store |-> store[lk].val]

(* ------------------------ pathlib on token strings --------------------- *)

\* the segments of a path string between its separators
RECURSIVE Segments(_, _)
Segments(p, cur) ==
    IF p = <<>> THEN <<cur>>
    ELSE IF Head(p) = "/" THEN <<cur>> \o Segments(Tail(p), <<>>)
    ELSE Segments(Tail(p), Append(cur, Head(p)))

\* PurePath.parts without the root: empty and "." segments are dropped
Parts(p) == SelectSeq(Segments(p, <<>>), LAMBDA seg : seg # <<>> /\ seg # <<".">>)

\* PurePath.name
Name(p) == IF Parts(p) = <<>> THEN <<>> ELSE Last(Parts(p))

\* name.rfind('.') + 1
RFindDot(name) ==
    LET dots == {i \in 1..Len(name) : name[i] = "."}
    IN  IF dots = {} THEN 0 ELSE CHOOSE i \in dots : \A j \in dots : j <= i

\* PurePath.suffix
Suffix(p) ==
    LET name == Name(p)
        i == RFindDot(name)
    IN  IF 1 < i /\ i < Len(name) THEN SubSeq(name, i, Len(name)) ELSE <<>>

\* PurePath.stem
Stem(p) ==
    LET name == Name(p)
        i == RFindDot(name)
    IN  IF 1 < i /\ i < Len(name) THEN SubSeq(name, 1, i - 1) ELSE name

LowerSeq(s) == [i \in 1..Len(s) |-> Lower(s[i])]

(* ------------------------------ Report --------------------------------- *)

\* output_file = Path(f"results{sep}{self.__path.stem}.html")
output_file(p) == <<"results", "/">> \o Stem(p) \o <<".", "html">>

\* str(output_file.absolute()), relative to the working directory
HtmlPath(p) == <<"results", "/">> \o Name(output_file(p))

\* f"{output_file.absolute().parent}{sep}{output_file.stem}.pdf"
PdfPath(p) == <<"results", "/">> \o Stem(output_file(p)) \o <<".", "pdf">>

\* f"{output_file.absolute().parent}{sep}stix_{output_file.stem}.json"
StixPath(p) == <<"results", "/", "stix_">> \o Stem(output_file(p)) \o <<".", "json">>

\* self.__path.suffix.lower() == ".pdf"
NeedsPdf(p) == LowerSeq(Suffix(p)) = <<".", "pdf">>

\* variant: an identifier already in the catalogue keeps its metadata
MergeCatalogueKeep(mods, loaded) == Update(loaded, mods)

\* modules.update(res[hostname]["loaded_modules"].copy())
MergeCatalogue(mods, loaded) == Update(mods, loaded)

\* variant: the envelope is read and left in place
UnwrapHostKeep(res, h) == res

\* del res[hostname]["loaded_modules"]; res[hostname] = res[hostname]["results"]
UnwrapHost(res, h) == Put(res, h, res[h]["results"])

RECURSIVE ExtractLoop(_, _, _)
ExtractLoop(hs, res, mods) ==
    IF hs = <<>> THEN [res |-> res, modules |-> mods]
    ELSE LET h == Head(hs)
         IN  IF "loaded_modules" \in DOMAIN res[h]
             THEN ExtractLoop(Tail(hs), UnwrapHost(res, h),
                              MergeCatalogue(mods, res[h]["loaded_modules"]))
             ELSE ExtractLoop(Tail(hs), res, mods)

extract_results(res) == ExtractLoop(Iter(DOMAIN res), res, <<>>)

ComplianceIds == {"compare_one", "compare_many"}

\* any([module in modules for module in ["compare_one", "compare_many"]])
ComplianceDeclared(mods) == \E c \in ComplianceIds : c \in DOMAIN mods

\* module = "compare_one" if "compare_one" in modules else "compare_many"
ComplianceModule(mods) == IF "compare_one" \in DOMAIN mods THEN "compare_one" ELSE "compare_many"

\* "mitigation" in results[hostname][module][sheet]
HasMitigation(v) == IsDict(v) /\ "mitigation" \in DOMAIN v.d

\* the sheets the loop over results[hostname][module] promotes
PromotedSheets(rec, module) ==
    IF module \in DOMAIN rec /\ DOMAIN rec[module] # {}
    THEN {sh \in DOMAIN rec[module] : HasMitigation(rec[module][sh])}
    ELSE {}

SyntheticName(module, sheet) == module \o "_" \o sheet

\* the body of the loop over the hosts, for a host whose record holds the module
FlattenHost(rec, module) ==
    LET sheets == PromotedSheets(rec, module)
        moved == [n \in {SyntheticName(module, sh) : sh \in sheets} |->
                    rec[module][CHOOSE sh \in sheets : SyntheticName(module, sh) = n].d]
    IN  Del(Update(rec, moved), module)

\* del results[hostname][module] raises KeyError for a host without the module
RECURSIVE FlattenLoop(_, _, _, _)
FlattenLoop(hs, res, mods, module) ==
    IF hs = <<>> THEN [res |-> res, modules |-> mods, err |-> FALSE]
    ELSE LET h == Head(hs)
         IN  IF module \notin DOMAIN res[h]
             THEN [res |-> res, modules |-> mods, err |-> TRUE]
             ELSE FlattenLoop(Tail(hs),
                              Put(res, h, FlattenHost(res[h], module)),
                              Update(mods, [n \in {SyntheticName(module, sh) :
                                                   sh \in PromotedSheets(res[h], module)} |-> S("''")]),
                              module)

\* the compliance block of run
flatten(res, mods) ==
    IF ComplianceDeclared(mods)
    THEN LET module == ComplianceModule(mods)
             r == FlattenLoop(Iter(DOMAIN res), res, mods, module)
         IN  IF r.err THEN r ELSE [r EXCEPT !.modules = Del(r.modules, module)]
    ELSE [res |-> res, modules |-> mods, err |-> FALSE]

\* mitigation is not None
NotNone(v) == IsDict(v) \/ v.s # "None"

\* the mitigations the loop over rec_search_key assigns, in order
FoundMitigations(orig) == SelectSeq(rec_search_key("mitigation", orig), NotNone)

\* variant: the raw payload keeps the top-level "mitigation"
SplitResultKeepMitigation(orig) ==
    LET found == FoundMitigations(orig)
        base == IF found = <<>> THEN orig ELSE Last(found).d
    IN  Put(base, "raw", D(orig))

\* the body of the split loop for one module result
SplitResult(orig) ==
    LET raw == IF "mitigation" \in DOMAIN orig THEN Del(orig, "mitigation") ELSE orig
        found == FoundMitigations(orig)
        base == IF found = <<>> THEN orig ELSE Last(found).d
    IN  Put(base, "raw", D(raw))

split(res) == [h \in DOMAIN res |-> [m \in DOMAIN res[h] |-> SplitResult(res[h][m])]]

\* variant: the fields of the host are merged into the aggregate
SetEntryMerge(agg, entry) == Update(agg, CaseInsensitiveDict(entry))

\* out[module] = CaseInsensitiveDict(results[hostname][module]["Entry"])
SetEntry(agg, entry) == CaseInsensitiveDict(entry)

\* the loop over the hosts of __modules_report_formatter, for one module
RECURSIVE ModuleHostsLoop(_, _, _, _)
ModuleHostsLoop(hs, res, module, acc) ==
    IF hs = <<>> THEN acc
    ELSE LET h == Head(hs)
         IN  IF module \in DOMAIN res[h]
             THEN LET r == res[h][module]
                      raw2 == IF "raw" \in DOMAIN r
                              THEN Put(acc.raw_results, h, r["raw"])
                              ELSE acc.raw_results
                      out2 == IF "Entry" \in DOMAIN r
                              THEN SetEntry(acc.out, r["Entry"].d)
                              ELSE acc.out
                      vh == IF \E i \in 1..Len(acc.vuln_hosts) : acc.vuln_hosts[i] = h
                            THEN acc.vuln_hosts
                            ELSE Append(acc.vuln_hosts, h)
                  IN  ModuleHostsLoop(Tail(hs), res, module,
                                      [out |-> out2, raw_results |-> raw2, vuln_hosts |-> vh])
             ELSE ModuleHostsLoop(Tail(hs), res, module, acc)

ModuleEntry(res, module) ==
    LET acc == ModuleHostsLoop(Iter(DOMAIN res), res, module,
                               [out |-> <<>>, raw_results |-> <<>>, vuln_hosts |-> <<>>])
        o1 == IF DOMAIN acc.raw_results # {}
              THEN SetItem(acc.out, "raw", pformat(acc.raw_results))
              ELSE acc.out
    IN  IF acc.vuln_hosts # <<>>
        THEN SetItem(o1, "hosts", [list |-> acc.vuln_hosts])
        ELSE o1

\* variant: an empty aggregate is kept
ModulesFormatterKeepEmpty(res, mods) == [m \in mods |-> ModuleEntry(res, m)]

modules_report_formatter(res, mods) ==
    LET all == [m \in mods |-> ModuleEntry(res, m)]
    IN  Restrict(all, {m \in mods : DOMAIN all[m] # {}})

\* the body of the loop over the modules of a host of __hosts_report_formatter
HostModuleEntry(r) ==
    LET raw_results == IF "raw" \in DOMAIN r THEN r["raw"].d ELSE <<>>
        e == CaseInsensitiveDict(r["Entry"].d)
    IN  IF DOMAIN raw_results # {} THEN SetItem(e, "raw", pformat(raw_results)) ELSE e

hosts_report_formatter(res) ==
    [h \in DOMAIN res |->
        [m \in {x \in DOMAIN res[h] : "Entry" \in DOMAIN res[h][x]} |->
            HostModuleEntry(res[h][m])]]

\* the view __jinja2__report hands to the template, and run to the exporter
FormatView(md, res, mods) ==
    IF md = "MODULES" THEN modules_report_formatter(res, DOMAIN mods)
    ELSE hosts_report_formatter(res)

(* ------------------------------ inputs --------------------------------- *)

Env(loaded, res) == [loaded_modules |-> loaded, results |-> res]

E_Foo == "Foo" :> S("'a'")

E_foo == "foo" :> S("'b'")

E_Name == "Name" :> S("'n'")

Mit(e) == "mitigation" :> D("Entry" :> D(e))

Other1 == "other" :> S("1")

\* module results: mitigation with and without "Entry", with and without other
\* keys, nested, repeated, absent, and results the pruner empties
ModuleResults ==
    { ("mitigation" :> D("risk" :> S("'high'"))) @@ Other1,
      Mit(E_Foo) @@ Other1,
      Mit(E_foo) @@ Other1,
      Mit(E_Foo @@ E_foo) @@ Other1,
      ("mitigation" :> D(("Entry" :> D(E_Name)) @@ ("risk" :> S("'high'")))) @@ Other1,
      Mit(E_Foo),
      Mit(E_Foo) @@ ("other" :> S("''")),
      Other1,
      "other" :> D(Mit(E_Name)),
      Mit(E_Foo) @@ ("other" :> D(Mit(E_Name))),
      "mitigation" :> D(<<>>) }

HostInputs ==
    { Env("m1" :> S("'A'"), "m1" :> r) : r \in ModuleResults }
    \cup { Env(("m1" :> S("'A'")) @@ ("m2" :> S("'A'")),
               ("m1" :> (Mit(E_Foo) @@ Other1)) @@ ("m2" :> Other1)),
           Env(("m1" :> S("'A'")) @@ ("m2" :> S("'A'")),
               ("m1" :> Mit(E_foo)) @@ ("m2" :> (Mit(E_Name) @@ Other1))),
           Env("m2" :> S("'A'"), "m1" :> (Mit(E_Foo) @@ Other1)),
           "m1" :> (Mit(E_Name) @@ Other1) }

\* envelopes whose catalogues overlap and disagree on the metadata
ExtractInputs ==
    { Env(l, r) :
        l \in { <<>>, "m1" :> S("'A'"), "m1" :> S("'B'"), "m2" :> S("'A'"),
                ("m1" :> S("'A'")) @@ ("m2" :> S("'B'")) },
        r \in { <<>>, "m1" :> (Mit(E_Foo) @@ Other1), "m2" :> Other1 } }
    \cup { <<>>, "m1" :> Other1 }

Sheet_mit == D("mitigation" :> D("x" :> S("1")))

Sheet_none == D("no_mitigation_here" :> S("2"))

Sheet_entry == D(Mit(E_Foo) @@ Other1)

Sheets_A == ("s1" :> Sheet_mit) @@ ("s2" :> Sheet_none)

Sheets_B == ("s1" :> Sheet_entry) @@ ("s2" :> Sheet_mit)

Sheets_C == "s2" :> Sheet_none

Sheets_D == "s1" :> D("mitigation" :> D(<<>>))

Meta(ids) == [m \in ids |-> S("'A'")]

\* compliance records: declared with data, declared without data, data the
\* pruner removes, both compliance identifiers, and hosts without either
FlatInputs ==
    { Env(Meta({"compare_one"}), "compare_one" :> sh) : sh \in {Sheets_A, Sheets_B, Sheets_C, Sheets_D} }
    \cup { Env(Meta({"compare_one", "m1"}), ("compare_one" :> Sheets_A) @@ ("m1" :> (Mit(E_Foo) @@ Other1))),
           Env(Meta({"compare_many"}), "compare_many" :> Sheets_A),
           Env(Meta({"compare_many", "m1"}), ("compare_many" :> Sheets_B) @@ ("m1" :> Other1)),
           Env(Meta({"compare_one", "compare_many"}),
               ("compare_one" :> Sheets_A) @@ ("compare_many" :> Sheets_B)),
           Env(Meta({"compare_one"}), "m1" :> Other1),
           Env(Meta({"m1"}), "m1" :> Other1),
           Env(Meta({"compare_one"}), <<>>),
           Env(Meta({"m1"}), ("m1" :> Other1) @@ ("compare_one" :> Sheets_A)) }

PathTokens == {"a", ".", "/", "pdf", "PDF"}

Paths == UNION {[1..n -> PathTokens] : n \in 0..MaxPathLen}

IOInputs == { Env(Meta({"m1"}), "m1" :> (Mit(E_Foo) @@ Other1)) }

HostSet(n) == {HostNames[i] : i \in 1..n}

Trees(family) == UNION {[HostSet(n) -> family] : n \in 0..MaxHosts}

(* ------------------------------ run ------------------------------------ *)

InitWith(trees, paths, modes, flags) ==
    /\ input \in trees
    /\ path \in paths
    /\ mode \in modes
    /\ stix \in flags
    /\ pc = "extract"
    /\ results = input
    /\ prev = input
    /\ modules = <<>>
    /\ view = <<>>
    /\ log = <<>>

Init == InitWith(Trees(HostInputs), {<<"audit", ".", "pdf">>}, {"HOSTS", "MODULES"}, {TRUE})

InitExtract == InitWith(Trees(ExtractInputs), {<<"audit", ".", "pdf">>}, {"HOSTS", "MODULES"}, {TRUE})

InitFlat == InitWith(Trees(FlatInputs), {<<"audit", ".", "pdf">>}, {"HOSTS", "MODULES"}, {TRUE})

InitIO == InitWith(Trees(IOInputs), Paths, {"HOSTS", "MODULES"}, BOOLEAN)

\* results, modules = self.__extract_results(self.__input_dict["results"])
Extract ==
    /\ pc = "extract"
    /\ LET r == extract_results(results)
       IN  results' = r.res /\ modules' = r.modules
    /\ prev' = results
    /\ pc' = "prune"
    /\ UNCHANGED <<input, path, mode, stix, view, log>>

\* results = pruner(results)
Prune ==
    /\ pc = "prune"
    /\ results' = pruner(results)
    /\ prev' = results
    /\ pc' = "flatten"
    /\ UNCHANGED <<input, path, mode, stix, modules, view, log>>

\* the compliance block; a KeyError ends the run
Flatten ==
    /\ pc = "flatten"
    /\ LET r == flatten(results, modules)
       IN  /\ results' = r.res
           /\ modules' = r.modules
           /\ pc' = IF r.err THEN "error" ELSE "split"
    /\ prev' = results
    /\ UNCHANGED <<input, path, mode, stix, view, log>>

\* the loop that divides raw from mitigations
Split ==
    /\ pc = "split"
    /\ results' = split(results)
    /\ prev' = results
    /\ pc' = "render"
    /\ UNCHANGED <<input, path, mode, stix, modules, view, log>>

\* with open(output_path, "w") as f: f.write(self.__jinja2__report(...))
Render ==
    /\ pc = "render"
    /\ view' = FormatView(mode, results, modules)
    /\ log' = Append(log, [op |-> "write", file |-> HtmlPath(path)])
    /\ pc' = "convert"
    /\ UNCHANGED <<input, path, mode, stix, results, prev, modules>>

\* output.html_to_pdf(str(output_file.absolute()), output_path)
Convert ==
    /\ pc = "convert"
    /\ log' = IF NeedsPdf(path)
              THEN Append(log, [op |-> "html_to_pdf", file |-> HtmlPath(path), out |-> PdfPath(path)])
              ELSE log
    /\ pc' = "export"
    /\ UNCHANGED <<input, path, mode, stix, results, prev, modules, view>>

\* Stix(...).build_and_save(results_to_stix, modules, str(stix_output_path))
Export ==
    /\ pc = "export"
    /\ log' = IF stix
              THEN Append(log, [op |-> "stix", view |-> FormatView(mode, results, modules),
                                catalogue |-> modules, out |-> StixPath(path)])
              ELSE log
    /\ pc' = "done"
    /\ UNCHANGED <<input, path, mode, stix, results, prev, modules, view>>

Next == Extract \/ Prune \/ Flatten \/ Split \/ Render \/ Convert \/ Export

\* the pipeline over trees of module results with and without mitigations
Spec == Init /\ [][Next]_vars

\* the pipeline over trees whose envelopes overlap
SpecExtract == InitExtract /\ [][Next]_vars

\* the pipeline over trees with compliance modules
SpecFlat == InitFlat /\ [][Next]_vars

\* the pipeline over the requested paths and the stix flag
SpecIO == InitIO /\ [][Next]_vars

(* ------------------------------ properties ----------------------------- *)

\* every key of the model has its place in KeyOrder
RECURSIVE KeysOf(_)
KeysOf(f) == DOMAIN f \cup UNION {IF IsDict(f[k]) THEN KeysOf(f[k].d) ELSE {} : k \in DOMAIN f}

KeysOrdered ==
    \A h \in DOMAIN results :
        /\ h \in {KeyOrder[i] : i \in 1..Len(KeyOrder)}
        /\ pc # "extract" =>
              \A m \in DOMAIN results[h] :
                  {m} \cup KeysOf(results[h][m]) \subseteq {KeyOrder[i] : i \in 1..Len(KeyOrder)}

Enveloped(h) == "loaded_modules" \in DOMAIN input[h]

\* the hosts of the input whose envelope declares m, in the order they are visited
Declaring(m) ==
    SelectSeq(Iter(DOMAIN input),
              LAMBDA h : Enveloped(h) /\ m \in DOMAIN input[h]["loaded_modules"])

DeclaredIds == UNION {DOMAIN input[h]["loaded_modules"] : h \in {x \in DOMAIN input : Enveloped(x)}}

\* C6: applying the Result Extractor to the tree it returned changes no host
\* record and returns an empty catalogue, and no record of that tree has the key
\* "loaded_modules"
C6_ExtractionIdempotent ==
    pc = "prune" =>
        /\ extract_results(results) = [res |-> results, modules |-> <<>>]
        /\ \A h \in DOMAIN results : "loaded_modules" \notin DOMAIN results[h]

\* an envelope with a non-empty catalogue has been extracted
C6_Witness ==
    /\ pc = "prune"
    /\ \E h \in DOMAIN input : Enveloped(h) /\ DOMAIN input[h]["loaded_modules"] # {}
    /\ DOMAIN modules # {}

\* C9 (amended): the catalogue's keys are the union of the hosts' declared
\* modules, and the metadata stored for m is the one of the host visited last
\* among those declaring m
C9_CatalogueLastWins ==
    pc = "prune" =>
        /\ DOMAIN modules = DeclaredIds
        /\ \A m \in DOMAIN modules :
              modules[m] = input[Last(Declaring(m))]["loaded_modules"][m]

\* C9 as stated: the metadata stored for m is the one of the host visited first
C9_CatalogueFirstWins ==
    pc = "prune" =>
        /\ DOMAIN modules = DeclaredIds
        /\ \A m \in DOMAIN modules :
              modules[m] = input[Head(Declaring(m))]["loaded_modules"][m]

\* two hosts declare the same module with different metadata
C9_Witness ==
    /\ pc = "prune"
    /\ \E m \in DOMAIN modules :
          /\ Len(Declaring(m)) >= 2
          /\ input[Head(Declaring(m))]["loaded_modules"][m]
                 # input[Last(Declaring(m))]["loaded_modules"][m]

\* the compliance identifier the flattening is about: "compare_one", else "compare_many"
DeclaredCompliance == IF "compare_one" \in DeclaredIds THEN "compare_one" ELSE "compare_many"

\* the sheets of a host's compliance record that hold a "mitigation" key
SheetsWithMitigation(rec, c) == {sh \in DOMAIN rec[c] : "mitigation" \in DOMAIN rec[c][sh].d}

\* C4: once the compliance block has run on a catalogue that declares c, a host
\* whose record held c holds exactly one synthetic module c_sheet, with the
\* sheet's content, for each sheet of its record for c that has a "mitigation";
\* none for a sheet without; each synthetic identifier is in the catalogue; c is
\* in no host record and not in the catalogue
C4_ComplianceFlattening ==
    ( /\ pc \in {"split", "error"}
      /\ DeclaredIds \cap ComplianceIds # {}
      /\ \E h \in DOMAIN prev : DeclaredCompliance \in DOMAIN prev[h] ) =>
        LET c == DeclaredCompliance
        IN  /\ c \notin DOMAIN modules
            /\ \A h \in DOMAIN results : c \notin DOMAIN results[h]
            /\ \A h \in {x \in DOMAIN results : c \in DOMAIN prev[x]} :
                  LET promoted == SheetsWithMitigation(prev[h], c)
                      synthetic == {m \in DOMAIN results[h] : m \notin DOMAIN prev[h]}
                  IN  /\ synthetic = {c \o "_" \o sh : sh \in promoted}
                      /\ Cardinality(synthetic) = Cardinality(promoted)
                      /\ \A sh \in promoted :
                            /\ results[h][c \o "_" \o sh] = prev[h][c][sh].d
                            /\ c \o "_" \o sh \in DOMAIN modules
                      /\ \A sh \in DOMAIN prev[h][c] \ promoted :
                            c \o "_" \o sh \notin DOMAIN results[h]

\* the same, for the runs in which every host record holds c
C4_AllHostsHold ==
    (\A h \in DOMAIN prev : DeclaredCompliance \in DOMAIN prev[h]) => C4_ComplianceFlattening

\* C8: when the catalogue declares the compliance module and some host has no
\* entry for it, the flattening completes, the compliance identifier leaves the
\* catalogue and every host record
C8_FlattenWithoutError ==
    ( /\ pc \in {"split", "error"}
      /\ DeclaredIds \cap ComplianceIds # {}
      /\ \E h \in DOMAIN prev : DeclaredCompliance \notin DOMAIN prev[h] ) =>
        /\ pc = "split"
        /\ DeclaredCompliance \notin DOMAIN modules
        /\ \A h \in DOMAIN results : DeclaredCompliance \notin DOMAIN results[h]

ViewStages == {"convert", "export", "done"}

\* the input with its envelopes removed, and that tree pruned
Unwrapped == [h \in DOMAIN input |-> IF Enveloped(h) THEN input[h]["results"] ELSE input[h]]

Pruned == pruner(Unwrapped)

\* host h declares module m, and its result for m has a top-level "mitigation"
DeclaresWithMitigation(h, m) ==
    /\ Enveloped(h)
    /\ m \in DOMAIN input[h]["loaded_modules"]
    /\ m \in DOMAIN input[h]["results"]
    /\ "mitigation" \in DOMAIN input[h]["results"][m]

\* ... m is no compliance module and, after pruning, the result for m is a
\* top-level "mitigation" with no other "mitigation" inside it or beside it
SingleMitigation(h, m) ==
    /\ DeclaresWithMitigation(h, m)
    /\ m \notin ComplianceIds
    /\ h \in DOMAIN Pruned
    /\ m \in DOMAIN Pruned[h]
    /\ "mitigation" \in DOMAIN Pruned[h][m]
    /\ "mitigation" \notin KeysOf(Pruned[h][m]["mitigation"].d)
    /\ "mitigation" \notin KeysOf(Del(Pruned[h][m], "mitigation"))

\* the fields of a mapping, compared without regard to the case of the keys
FieldsOf(f) == Fields(CaseInsensitiveDict(f))

\* the fields of the "Entry" of a mitigation, none when it has no "Entry"
EntryFields(F) == IF "Entry" \in DOMAIN F THEN FieldsOf(F["Entry"].d) ELSE <<>>

\* C1 (amended): in MODULES mode, when h is the only host holding m and m's
\* pruned result is one top-level mitigation F plus other keys R, out[m] is the
\* fields of F["Entry"] (none without an "Entry") plus "raw", the pformat of
\* {h: R}, plus "hosts", [h]
C1_ModulesViewEntry ==
    (mode = "MODULES" /\ pc \in ViewStages) =>
        \A h \in DOMAIN input : \A m \in {"m1", "m2"} :
            ( /\ SingleMitigation(h, m)
              /\ \A g \in DOMAIN Pruned \ {h} : m \notin DOMAIN Pruned[g] ) =>
                LET F == Pruned[h][m]["mitigation"].d
                    R == Del(Pruned[h][m], "mitigation")
                IN  /\ m \in DOMAIN view
                    /\ Fields(view[m]) =
                          Update(EntryFields(F),
                                 ("raw" :> pformat(h :> D(R))) @@ ("hosts" :> [list |-> <<h>>]))

\* C1 as stated: out[m] is the fields of F plus "raw", the pformat of {h: R},
\* plus "hosts", [h], with F and R as the input has them
C1_ModulesViewMitigation ==
    (mode = "MODULES" /\ pc \in ViewStages) =>
        \A h \in DOMAIN input : \A m \in {"m1", "m2"} :
            DeclaresWithMitigation(h, m) =>
                LET F == input[h]["results"][m]["mitigation"].d
                    R == Del(input[h]["results"][m], "mitigation")
                IN  /\ m \in DOMAIN view
                    /\ Fields(view[m]) =
                          Update(FieldsOf(F),
                                 ("raw" :> pformat(h :> D(R))) @@ ("hosts" :> [list |-> <<h>>]))

\* a view of a single host whose mitigation has an "Entry" and a "risk" beside
\* it, and other keys
C1_Witness ==
    /\ mode = "MODULES"
    /\ pc = "done"
    /\ \E h \in DOMAIN input :
          /\ SingleMitigation(h, "m1")
          /\ \A g \in DOMAIN Pruned \ {h} : "m1" \notin DOMAIN Pruned[g]
          /\ {"Entry", "risk"} \subseteq DOMAIN Pruned[h]["m1"]["mitigation"].d
          /\ "other" \in DOMAIN Pruned[h]["m1"]
          /\ "name" \in DOMAIN view["m1"]

\* C2 (amended): in HOSTS mode, when m's pruned result on h is one top-level
\* mitigation F plus other keys R, out[h] has the entry m exactly when F has an
\* "Entry", and then out[h][m] is the fields of F["Entry"] plus, when R is not
\* empty, "raw", the pformat of R
C2_HostsViewEntry ==
    (mode = "HOSTS" /\ pc \in ViewStages) =>
        \A h \in DOMAIN input : \A m \in {"m1", "m2"} :
            SingleMitigation(h, m) =>
                LET F == Pruned[h][m]["mitigation"].d
                    R == Del(Pruned[h][m], "mitigation")
                IN  /\ h \in DOMAIN view
                    /\ m \in DOMAIN view[h] <=> "Entry" \in DOMAIN F
                    /\ m \in DOMAIN view[h] =>
                          Fields(view[h][m]) =
                              IF DOMAIN R = {} THEN EntryFields(F)
                              ELSE Update(EntryFields(F), "raw" :> pformat(R))

\* C2 as stated: out[h][m] exists and is the fields of F plus "raw", the pformat
\* of R, with F and R as the input has them
C2_HostsViewMitigation ==
    (mode = "HOSTS" /\ pc \in ViewStages) =>
        \A h \in DOMAIN input : \A m \in {"m1", "m2"} :
            DeclaresWithMitigation(h, m) =>
                LET F == input[h]["results"][m]["mitigation"].d
                    R == Del(input[h]["results"][m], "mitigation")
                IN  /\ h \in DOMAIN view
                    /\ m \in DOMAIN view[h]
                    /\ Fields(view[h][m]) = Update(FieldsOf(F), "raw" :> pformat(R))

\* a host view with an entry that has finding fields and a raw payload, beside
\* a host whose mitigation has no "Entry"
C2_Witness ==
    /\ mode = "HOSTS"
    /\ pc = "done"
    /\ \E h \in DOMAIN input :
          /\ SingleMitigation(h, "m1")
          /\ "m1" \in DOMAIN view[h]
          /\ {"foo", "raw"} \subseteq DOMAIN view[h]["m1"]
    /\ \E h \in DOMAIN input :
          /\ SingleMitigation(h, "m1")
          /\ "m1" \notin DOMAIN view[h]

\* C3: after the split loop the keys of a module's result other than "raw" are
\* the keys of the selected mitigation, and none when no mitigation is found
C3_SplitKeys ==
    pc = "render" =>
        \A h \in DOMAIN results : \A m \in DOMAIN results[h] :
            LET found == FoundMitigations(prev[h][m])
            IN  DOMAIN results[h][m] \ {"raw"} =
                    IF found = <<>> THEN {} ELSE DOMAIN Last(found).d

\* C5 (amended): the module-grouped view has no module entry with empty
\* content, and the host-grouped view has no per-host module entry with empty
\* content
C5_NoEmptyEntries ==
    pc \in ViewStages =>
        /\ mode = "MODULES" => \A m \in DOMAIN view : DOMAIN view[m] # {}
        /\ mode = "HOSTS" =>
              \A h \in DOMAIN view : \A m \in DOMAIN view[h] : DOMAIN view[h][m] # {}

\* C5 as stated: nor has the host-grouped view a hostname with empty content
C5_NoEmptyEntriesOrHosts ==
    pc \in ViewStages =>
        /\ C5_NoEmptyEntries
        /\ mode = "HOSTS" => \A h \in DOMAIN view : DOMAIN view[h] # {}

\* both views have been formatted from a tree in which a declared module has
\* no data and a host has a module with an "Entry"
C5_Witness ==
    /\ pc = "done"
    /\ \E m \in DOMAIN modules : \A h \in DOMAIN results : m \notin DOMAIN results[h]
    /\ \E h \in DOMAIN results : \E m \in DOMAIN results[h] : "Entry" \in DOMAIN results[h][m]
    /\ DOMAIN view # {}

\* the hosts whose record holds module m, in the order they are visited
HostsWith(m) == SelectSeq(Iter(DOMAIN results), LAMBDA h : m \in DOMAIN results[h])

\* ... and among them those whose result for m has an "Entry"
HostsWithEntry(m) == SelectSeq(HostsWith(m), LAMBDA h : "Entry" \in DOMAIN results[h][m])

\* the fields of a view entry other than "raw" and "hosts"
Findings(e) == Restrict(Fields(e), DOMAIN e \ {"raw", "hosts"})

\* C10 (amended): in the module-grouped view the finding fields of a module are
\* those of the "Entry" of the last host that has one (keys differing only in
\* case being one field), the fields of earlier hosts are gone, and "hosts"
\* lists the hosts holding the module once each in the order first seen
C10_LastHostEntry ==
    (mode = "MODULES" /\ pc \in ViewStages) =>
        \A m \in DOMAIN modules :
            /\ m \in DOMAIN view <=> HostsWith(m) # <<>>
            /\ m \in DOMAIN view =>
                  /\ view[m]["hosts"].val = [list |-> HostsWith(m)]
                  /\ Findings(view[m]) =
                        IF HostsWithEntry(m) = <<>> THEN <<>>
                        ELSE LET e == FieldsOf(results[Last(HostsWithEntry(m))][m]["Entry"].d)
                             IN  Restrict(e, DOMAIN e \ {"raw", "hosts"})

\* C10 as stated: the aggregate has the fields of every host holding the
\* module, the later host's value on a collision, and "hosts" lists the hosts
C10_MergedEntries ==
    (mode = "MODULES" /\ pc \in ViewStages) =>
        \A m \in DOMAIN view :
            /\ view[m]["hosts"].val = [list |-> HostsWith(m)]
            /\ \A i \in 1..Len(HostsWithEntry(m)) :
                  LET e == FieldsOf(results[HostsWithEntry(m)[i]][m]["Entry"].d)
                  IN  \A k \in DOMAIN e :
                          /\ k \in DOMAIN view[m]
                          /\ (\A j \in (i + 1)..Len(HostsWithEntry(m)) :
                                  k \notin DOMAIN results[HostsWithEntry(m)[j]][m]["Entry"].d
                                  /\ k \notin {Lower(x) : x \in DOMAIN results[HostsWithEntry(m)[j]][m]["Entry"].d})
                              => view[m][k].val = e[k]

\* two hosts hold the module with an "Entry", and the fields differ
C10_Witness ==
    /\ mode = "MODULES"
    /\ pc = "done"
    /\ \E m \in DOMAIN view :
          /\ Len(HostsWithEntry(m)) >= 2
          /\ DOMAIN FieldsOf(results[Head(HostsWithEntry(m))][m]["Entry"].d)
                 # DOMAIN FieldsOf(results[Last(HostsWithEntry(m))][m]["Entry"].d)

\* the calls of the log with the given operation
Calls(op) == {i \in 1..Len(log) : log[i].op = op}

\* C7: a completed run for path P has written results/<stem(P)>.html before
\* any other call; the converter is called, on that file and to
\* results/<stem(P)>.pdf, exactly when P's extension is pdf; the exporter is
\* called, to results/stix_<stem(P)>.json, exactly when the stix flag is set
C7_OutputArtifacts ==
    pc = "done" =>
        LET html == <<"results", "/">> \o Stem(path) \o <<".", "html">>
        IN  /\ Len(log) >= 1
            /\ log[1] = [op |-> "write", file |-> html]
            /\ Calls("html_to_pdf") # {} <=> LowerSeq(Suffix(path)) = <<".", "pdf">>
            /\ \A i \in Calls("html_to_pdf") :
                  /\ log[i].file = html
                  /\ log[i].out = <<"results", "/">> \o Stem(path) \o <<".", "pdf">>
            /\ Calls("stix") # {} <=> stix
            /\ \A i \in Calls("stix") :
                  log[i].out = <<"results", "/", "stix_">> \o Stem(path) \o <<".", "json">>

====
